---- MODULE Spec2Model ----
(***************************************************************************)
(* Model of the delegated-identity token subsystem of sales-pitch-demo:    *)
(*   src/src/auth.py                      token caches, store, refresher   *)
(*   src/scripts/auth_server.py           standalone callback server       *)
(*   src/functions/login, callback,       hosted login/callback functions  *)
(*   src/functions/shared/auth_exchange.py                                  *)
(* Every public operation is one action.  The identity provider, the clock *)
(* and the durable storage are the environment: each token-endpoint        *)
(* request gets a response drawn from a small set, each storage access     *)
(* succeeds or fails.                                                      *)
(***************************************************************************)
EXTENDS Integers, Sequences, FiniteSets, TLC

\* ------------------------------------------------------------------ bounds

\* The clock runs from 0 to MaxNow in steps of TickStep seconds.
MaxNow == 60
TickStep == 30

\* Each /login and each server process draws a state value never drawn before
\* (secrets.token_urlsafe(16)): the values 1, 2, ... up to MaxNonces.
MaxNonces == 2

\* ------------------------------------------------------- program constants

\* The safety margin of every validity check (time.time() < expires_at - 60).
SKEW == 60
\* body.get("expires_in", 3600)
DEFAULT_EXPIRES_IN == 3600

\* Python's None, as the value of a token field.
None == "<None>"

\* ------------------------------------------------------------ dict helpers

\* An optional key of a parsed response body: <<>> (the key is missing) or <<v>>.
Has(field) == Len(field) > 0

\* dict.get(key, default)
Get(field, default) == IF Has(field) THEN field[1] ELSE default

\* bool(s) of a token field: None and "" are falsy.
Truthy(s) == s # None /\ s # ""

\* --------------------------------------------------------------- json model

\* A JSON value: null, a string or a number.
JsonNull == [t |-> "null", s |-> "", n |-> 0]
JsonStr(s) == [t |-> "string", s |-> s, n |-> 0]
JsonNum(n) == [t |-> "number", s |-> "", n |-> n]

\* json.dumps of one token field (a str or None) and of one number.
DumpsToken(v) == IF v = None THEN JsonNull ELSE JsonStr(v)
DumpsNumber(n) == JsonNum(n)

\* json.loads of one value back into Python: null -> None.
LoadsToken(j) == IF j.t = "null" THEN None ELSE j.s
LoadsNumber(j) == j.n

\* A JSON object is the sequence of its members <<key, value>>, in order.
\* data.get(key): the member's value as a one-element sequence, <<>> if absent.
Member(obj, key) ==
    LET idx == {i \in 1..Len(obj) : obj[i][1] = key}
    IN  IF idx = {} THEN <<>> ELSE <<obj[CHOOSE i \in idx : TRUE][2]>>

\* json.dumps(token_data) for a dict with the three keys of a token record.
JsonDumps(rec) ==
    << <<"access_token", DumpsToken(rec.access_token)>>,
       <<"refresh_token", DumpsToken(rec.refresh_token)>>,
       <<"expires_at", DumpsNumber(rec.expires_at)>> >>

\* The durable object does not exist (no file, no blob).
Absent == <<>>

\* ------------------------------------------------------------ configuration

\* Each field says whether the environment variable is set (non-empty).
Configs ==
    [GRAPH_BLUEPRINT_CLIENT_ID : BOOLEAN, GRAPH_BLUEPRINT_SECRET : BOOLEAN,
     GRAPH_AGENT_CLIENT_ID : BOOLEAN,
     GRAPH_CLIENT_ID : BOOLEAN, GRAPH_CLIENT_SECRET : BOOLEAN,
     TOKEN_STORAGE_URL : BOOLEAN,
     handler : {"standalone", "hosted"}]

\* The deployments of the main specification.  The blueprint identity and the
\* legacy identity are each configured completely or not at all.  A blueprint
\* deployment never reads the legacy identity, and a legacy deployment has no
\* callback handler and never reads the storage location: those fields are fixed.
Deployments ==
    {c \in Configs :
        /\ c.GRAPH_BLUEPRINT_CLIENT_ID = c.GRAPH_BLUEPRINT_SECRET
        /\ c.GRAPH_BLUEPRINT_SECRET = c.GRAPH_AGENT_CLIENT_ID
        /\ c.GRAPH_CLIENT_ID = c.GRAPH_CLIENT_SECRET
        /\ c.GRAPH_BLUEPRINT_CLIENT_ID => c.GRAPH_CLIENT_ID
        /\ ~c.GRAPH_BLUEPRINT_CLIENT_ID =>
              ~c.TOKEN_STORAGE_URL /\ c.handler = "standalone"}

\* --------------------------------------------------- token-endpoint replies

\* One reply of the identity provider to one POST.  status is "ok" (2xx with a
\* JSON body), "http_error" (status >= 400), "transport" (network error or
\* timeout: httpx raises a TransportError) or "bad_body" (2xx whose body is
\* not JSON: resp.json() raises ValueError).  Each body key is <<>> or <<v>>.
Failed(status) ==
    [status |-> status, access_token |-> <<>>, refresh_token |-> <<>>,
     expires_in |-> <<>>]

Failures == {Failed("http_error"), Failed("transport"), Failed("bad_body")}

\* The TTLs a provider reports: at the margin, above it, or none at all.
ExpiresIn == {<<>>, <<SKEW>>, <<2 * SKEW>>}

Replies(access, refresh, ttls) ==
    Failures \cup
    [status : {"ok"}, access_token : {<<>>} \cup {<<a>> : a \in access},
     refresh_token : {<<>>} \cup {<<r>> : r \in refresh}, expires_in : ttls]

\* client_credentials with the blueprint secret and fmi_path: bootstrap token T1.
BootstrapReplies ==
    Failures \cup {[Failed("ok") EXCEPT !.access_token = <<"T1">>], Failed("ok")}
\* client_credentials of the legacy registration.
LegacyReplies == Replies({"LEG1", "LEG2"}, {}, ExpiresIn)
\* client_credentials of the agent with client_assertion = T1.
AgentReplies == Replies({"APP1", "APP2"}, {}, ExpiresIn)
\* refresh_token grants (assertion form and blueprint-secret form).
RefreshReplies == Replies({"DEL1"}, {"RT2"}, ExpiresIn)
\* authorization_code redemption (both forms): the user token Tc.
RedeemReplies == Replies({"TC"}, {"RC"}, {<<2 * SKEW>>})
\* client_credentials of the consent-only path.
ConsentReplies == Replies({"APP1"}, {}, {<<>>})
\* jwt-bearer on-behalf-of grant.
OboReplies == Replies({"OBO1"}, {"ROBO"}, {<<SKEW>>, <<2 * SKEW>>})

\* ExcOf with a provider rejection converted into the sign-in signal.
ExcOfConverted(reply) ==
    CASE reply.status = "http_error" -> "DelegatedAuthRequired"
      [] reply.status = "transport" -> "TransportError"
      [] reply.status = "bad_body" -> "ValueError"
      [] OTHER -> "KeyError"

\* What an exception-raising reply raises at raise_for_status() / resp.json().
ExcOf(reply) ==
    CASE reply.status = "http_error" -> "HTTPStatusError"
      [] reply.status = "transport" -> "TransportError"
      [] reply.status = "bad_body" -> "ValueError"
      [] OTHER -> "KeyError"

\* -------------------------------------------------------------------- state

VARIABLES
    now,                    \* time.time(), in seconds
    cfg,                    \* the environment of the deployment
    workload,               \* which token the callers of this run ask for
    legacy_token_cache,     \* auth._legacy_token_cache
    agent_token_cache,      \* auth._agent_token_cache
    delegated_token_cache,  \* auth._delegated_token_cache
    file,                   \* ~/.sales-prep-demo-token.json: Absent or JSON
    blob,                   \* the object at TOKEN_STORAGE_URL: Absent or JSON
    server_up,              \* the standalone server process is serving
    state,                  \* auth_server._state of the serving process
    issued,                 \* the state value of the latest /login redirect
    last,                   \* what the latest operation did and returned
    since_clear,            \* history: a clear, then a handler write, then a get
    recovery,               \* history: a sign-in demand, a completed sign-in, a retry
    newest_rt,              \* history: the refresh token obtained or stored last
    saved,                  \* history: the token the store last saved to the file
    last_modified,          \* the durable object's last-modified stamp
    poll_pc,                \* where wait_for_fresh_token is: idle, poll, sleep, done
    timeout,                \* its argument, in seconds
    baseline,               \* the stamp it recorded before polling
    elapsed,                \* seconds since it was called
    result,                 \* what it returned
    observed,               \* history: a poll before the deadline saw another stamp
    thread,                 \* each thread's position in get_graph_token() and its locals
    origin,                 \* history: the response each agent-cache field came from
    responses,              \* history: the token responses received by the threads
    seq,                    \* SalesAgentServer._seq of the one server instance
    stream                  \* each streamed response: its position and latest event

authVars ==
    <<now, cfg, workload, legacy_token_cache, agent_token_cache, delegated_token_cache,
      file, blob, server_up, state, issued, last, since_clear, recovery, newest_rt, saved>>

pollVars == <<last_modified, poll_pc, timeout, baseline, elapsed, result, observed>>

raceVars == <<thread, origin, responses>>

streamVars == <<seq, stream>>

vars == <<authVars, pollVars, raceVars, streamVars>>

\* What a run exercises, so that the reachable states are the union of the
\* parts' states and not their product:
\*   "application"  get_graph_token, and _get_legacy_token behind either function.
\*                  It touches only the two application caches, which nothing
\*                  else reads or writes.
\*   "delegated"    the blueprint-mode store and refresher under every reply,
\*                  with the callback handler as the writer of the durable
\*                  record: it handles completed sign-ins.  (A callback that
\*                  ends in 400 or 500 writes nothing and changes nothing the
\*                  store reads.)
\*   "callback"     the callback handler alone, under every request and reply.
\*   "poller"       wait_for_fresh_token and the writes of a handler elsewhere.
\*   "threads"      concurrent callers of get_graph_token, statement by statement.
\*   "clearing"     get_graph_delegated_token and clear_delegated_cache in two
\*                  threads of the store's process.
\*   "streaming"    the streamed responses of the hosted agent server.
Workloads == {"application", "delegated"}

\* The callback handler faces every request, reply and write failure.
FullHandler == workload = "callback"

\* The threads of one process that call get_graph_token() at the same time.
Threads == {1, 2}

\* No response: the initial content of the caches comes from none.
NoResponse == 0

\* A thread outside get_graph_token(): `body` is its local variable, `id` the
\* response in it, `checked` the response whose expiry its validity check read,
\* `handed` what its latest call returned, `handed_of` that token's response and
\* `outcome` whether the call returned or raised.
ThreadIdle ==
    [pc |-> "idle", body |-> Failed("none"), id |-> NoResponse,
     checked |-> NoResponse, handed |-> None, handed_of |-> NoResponse,
     outcome |-> "none"]

\* qs.get("state", [None])[0] of a callback without a state parameter.
NoState == 0
\* A state value that no /login ever sent.
Forged == MaxNonces + 1

EmptyAppCache == [access_token |-> None, expires_at |-> 0]
EmptyDelegatedCache == [access_token |-> None, refresh_token |-> None, expires_at |-> 0]

\* The last-modified stamp of a durable object that does not exist ("absent").
NotModified == 0

\* No token record (of a callback that got none, of a file the store did not save).
NoToken == [access_token |-> "", refresh_token |-> "", expires_at |-> 0]

\* The report of an operation; Idle between operations.  grants lists the status
\* of each refresh_token grant sent and sent the refresh token each of them
\* carried, save is the outcome of the durable write
\* ("none" if none was attempted), tc the redeemed user token, obo_reply the
\* reply to the jwt-bearer grant and refresh_reply the reply the refresher parsed.
Idle ==
    [op |-> "none", kind |-> "none", val |-> "", exp |-> 0, src |-> "none",
     ttl |-> 0, nreq |-> 0, loaded |-> "none", grants |-> <<>>, sent |-> <<>>, status |-> 0,
     save |-> "none", st |-> NoState, code |-> FALSE, error |-> FALSE,
     redeem |-> "none", obo |-> "none", tc |-> NoToken, obo_reply |-> Failed("none"),
     refresh_reply |-> Failed("none")]

\* A call that returned cache's access token.
Returned(op, cache, src, ttl, nreq, loaded) ==
    [Idle EXCEPT !.op = op, !.kind = "token", !.val = cache.access_token,
                 !.exp = cache.expires_at, !.src = src, !.ttl = ttl,
                 !.nreq = nreq, !.loaded = loaded]

\* A call that raised exception exc.
Raised(op, exc, val, nreq, loaded) ==
    [Idle EXCEPT !.op = op, !.kind = exc, !.val = val, !.nreq = nreq,
                 !.loaded = loaded]

\* The streamed responses the hosted server is asked for in one run: requests
\* with context.stream set, all served by the module's one `app` instance.
Streams == {"first", "second"}

\* The agent stream of one response delivers at most MaxUpdates updates.
MaxUpdates == 2

\* No event yet.
NoEvent == [type |-> "none", sequence_number |-> 0]

\* A streamed response that has not been asked for yet: where its generator
\* is, the updates its agent stream delivered, the events it sent and the
\* latest of them.
StreamIdle == [pc |-> "idle", update_count |-> 0, emitted |-> 0, event |-> NoEvent]

\* The state of a deployment, of one of `configs`, whose processes have just started.
StartIn(configs, workloads) ==
    /\ now = 0
    /\ cfg \in configs
    /\ workload \in workloads
    /\ legacy_token_cache = EmptyAppCache
    /\ agent_token_cache = EmptyAppCache
    /\ delegated_token_cache = EmptyDelegatedCache
    /\ file = Absent
    /\ blob = Absent
    /\ server_up = FALSE
    /\ state = NoState
    /\ issued = NoState
    /\ last = Idle
    /\ since_clear = "none"
    /\ recovery = "none"
    /\ newest_rt = None
    /\ saved = NoToken
    /\ last_modified = NotModified
    /\ poll_pc = "idle"
    /\ timeout = 0
    /\ baseline = NotModified
    /\ elapsed = 0
    /\ result = FALSE
    /\ observed = FALSE
    /\ thread = [t \in Threads |-> ThreadIdle]
    /\ origin = [access_token |-> NoResponse, expires_at |-> NoResponse]
    /\ responses = 0
    /\ seq = 0
    /\ stream = [s \in Streams |-> StreamIdle]

Start(workloads) == StartIn(Deployments, workloads)

Init == Start(Workloads)

\* ------------------------------------------------------------------- clock

Tick ==
    /\ now + TickStep <= MaxNow
    /\ now' = now + TickStep
    /\ last' = Idle
    /\ UNCHANGED <<cfg, workload, legacy_token_cache, agent_token_cache, delegated_token_cache,
                   file, blob, server_up, state, issued, since_clear, recovery, newest_rt, saved>>
    /\ UNCHANGED <<pollVars, raceVars, streamVars>>

\* ------------------------------------------------- application token (4.2)

\* A mode selection that forgets the agent client id.
use_agent_id_blueprint_only == cfg.GRAPH_BLUEPRINT_CLIENT_ID /\ cfg.GRAPH_BLUEPRINT_SECRET

\* _use_agent_id()
use_agent_id ==
    cfg.GRAPH_BLUEPRINT_CLIENT_ID /\ cfg.GRAPH_BLUEPRINT_SECRET /\ cfg.GRAPH_AGENT_CLIENT_ID

\* Valid without the safety margin, and with twice the margin.
ValidNoSkew(cache) == Truthy(cache.access_token) /\ now < cache.expires_at
ValidWrongMargin(cache) == Truthy(cache.access_token) /\ now < cache.expires_at - 2 * SKEW

\* cache["access_token"] and time.time() < cache["expires_at"] - 60
Valid(cache) == Truthy(cache.access_token) /\ now < cache.expires_at - SKEW

\* The cache entry made of a reply: its access token, and time.time() + expires_in.
AppEntry(reply) ==
    [access_token |-> reply.access_token[1],
     expires_at |-> now + Get(reply.expires_in, DEFAULT_EXPIRES_IN)]

\* _get_legacy_token(), called by operation op; reply answers _acquire_legacy_token.
get_legacy_token(op, reply) ==
    IF Valid(legacy_token_cache)
    THEN /\ last' = Returned(op, legacy_token_cache, "cache", 0, 0, "none")
         /\ UNCHANGED legacy_token_cache
    ELSE IF ~(cfg.GRAPH_CLIENT_ID /\ cfg.GRAPH_CLIENT_SECRET)
    THEN /\ last' = Raised(op, "RuntimeError", "", 0, "none")
         /\ UNCHANGED legacy_token_cache
    ELSE IF reply.status # "ok" \/ ~Has(reply.access_token)
    THEN /\ last' = Raised(op, ExcOf(reply), "", 1, "none")
         /\ UNCHANGED legacy_token_cache
    ELSE /\ legacy_token_cache' = AppEntry(reply)
         /\ last' = Returned(op, AppEntry(reply), "acquired",
                             Get(reply.expires_in, DEFAULT_EXPIRES_IN), 1, "none")

\* An acquirer that caches the bootstrap reply instead of the agent reply.
get_agent_app_token_bootstrap_cached(op, reply1, reply2) ==
    IF Valid(agent_token_cache)
    THEN /\ last' = Returned(op, agent_token_cache, "cache", 0, 0, "none")
         /\ UNCHANGED agent_token_cache
    ELSE IF reply1.status # "ok" \/ ~Has(reply1.access_token)
    THEN /\ last' = Raised(op, ExcOf(reply1), "", 1, "none")
         /\ UNCHANGED agent_token_cache
    ELSE IF reply2.status # "ok" \/ ~Has(reply2.access_token)
    THEN /\ last' = Raised(op, ExcOf(reply2), "", 2, "none")
         /\ UNCHANGED agent_token_cache
    ELSE /\ agent_token_cache' = AppEntry(reply1)
         /\ last' = Returned(op, AppEntry(reply1), "acquired",
                             Get(reply1.expires_in, DEFAULT_EXPIRES_IN), 2, "none")

\* _acquire_agent_app_token() and the cache update of get_graph_token():
\* reply1 answers the bootstrap grant, reply2 the agent-assertion grant.
get_agent_app_token(op, reply1, reply2) ==
    IF Valid(agent_token_cache)
    THEN /\ last' = Returned(op, agent_token_cache, "cache", 0, 0, "none")
         /\ UNCHANGED agent_token_cache
    ELSE IF reply1.status # "ok" \/ ~Has(reply1.access_token)
    THEN /\ last' = Raised(op, ExcOf(reply1), "", 1, "none")
         /\ UNCHANGED agent_token_cache
    ELSE IF reply2.status # "ok" \/ ~Has(reply2.access_token)
    THEN /\ last' = Raised(op, ExcOf(reply2), "", 2, "none")
         /\ UNCHANGED agent_token_cache
    ELSE /\ agent_token_cache' = AppEntry(reply2)
         /\ last' = Returned(op, AppEntry(reply2), "acquired",
                             Get(reply2.expires_in, DEFAULT_EXPIRES_IN), 2, "none")

\* get_graph_token()
GetGraphToken ==
    /\ workload = "application"
    /\ IF use_agent_id
       THEN /\ \E reply1 \in BootstrapReplies, reply2 \in AgentReplies :
                 get_agent_app_token("get_graph_token", reply1, reply2)
            /\ UNCHANGED legacy_token_cache
       ELSE /\ \E reply \in LegacyReplies : get_legacy_token("get_graph_token", reply)
            /\ UNCHANGED agent_token_cache
    /\ UNCHANGED <<now, cfg, workload, delegated_token_cache, file, blob, server_up, state,
                   issued, since_clear, recovery, newest_rt, saved>>
    /\ UNCHANGED <<pollVars, raceVars, streamVars>>

\* --------------------------------------------------- delegated store (4.3)

\* data.get("access_token"), data.get("refresh_token"), data.get("expires_at", 0.0)
\* of a parsed durable JSON object.
LoadRecord(obj) ==
    [access_token |-> LoadsToken(Get(Member(obj, "access_token"), JsonNull)),
     refresh_token |-> LoadsToken(Get(Member(obj, "refresh_token"), JsonNull)),
     expires_at |-> LoadsNumber(Get(Member(obj, "expires_at"), JsonNum(0)))]

\* A save that leaves the refresh token out.
SavePayloadNoRefresh(cache) ==
    JsonDumps([access_token |-> cache.access_token, refresh_token |-> None,
               expires_at |-> cache.expires_at])

\* The payload of _save_delegated_cache(): the cache's three fields.
SavePayload(cache) ==
    JsonDumps([access_token |-> cache.access_token,
               refresh_token |-> cache.refresh_token,
               expires_at |-> cache.expires_at])

\* A load that trusts the memory and never reads the storage.
load_never(cache, read_ok) == [cache |-> cache, loaded |-> "skipped"]

\* A load that is skipped whenever the memory holds any access token, valid or not.
load_unless_token(cache, read_ok) ==
    IF Truthy(cache.access_token)
    THEN [cache |-> cache, loaded |-> "skipped"]
    ELSE IF cfg.TOKEN_STORAGE_URL
    THEN IF blob # Absent /\ read_ok
         THEN [cache |-> LoadRecord(blob), loaded |-> "ok"]
         ELSE [cache |-> cache, loaded |-> "failed"]
    ELSE IF file # Absent
    THEN IF read_ok
         THEN [cache |-> LoadRecord(file), loaded |-> "ok"]
         ELSE [cache |-> cache, loaded |-> "failed"]
    ELSE [cache |-> cache, loaded |-> "absent"]

\* _load_delegated_cache(): the cache after the call and whether storage was read.
\* read_ok is the outcome of the download / read_text / json.loads, whose failure
\* _load_from_blob and _load_from_file swallow.
load_delegated_cache(cache, read_ok) ==
    IF Valid(cache)
    THEN [cache |-> cache, loaded |-> "skipped"]
    ELSE IF cfg.TOKEN_STORAGE_URL
    THEN IF blob # Absent /\ read_ok
         THEN [cache |-> LoadRecord(blob), loaded |-> "ok"]
         ELSE [cache |-> cache, loaded |-> "failed"]
    ELSE IF file # Absent
    THEN IF read_ok
         THEN [cache |-> LoadRecord(file), loaded |-> "ok"]
         ELSE [cache |-> cache, loaded |-> "failed"]
    ELSE [cache |-> cache, loaded |-> "absent"]

\* A refresher that forgets the stored refresh token when the reply has none.
RefreshedEntryNotRetained(reply, refresh_token) ==
    [access_token |-> reply.access_token[1],
     refresh_token |-> Get(reply.refresh_token, ""),
     expires_at |-> now + Get(reply.expires_in, DEFAULT_EXPIRES_IN)]

\* The delegated cache after a successful refresh reply (auth.py 301-304).
RefreshedEntry(reply, refresh_token) ==
    [access_token |-> reply.access_token[1],
     refresh_token |-> Get(reply.refresh_token, refresh_token),
     expires_at |-> now + Get(reply.expires_in, DEFAULT_EXPIRES_IN)]

\* The redirect base without the /login path.
LoginUrlBase == "<redirect-base>"

\* f"{AUTH_REDIRECT_BASE_URL}/login"
LoginUrl == "<redirect-base>/login"

\* The end of get_graph_delegated_token() in blueprint mode: the new cache,
\* file and blob and the report of the call.  A reply the refresher accepted
\* makes the cache's refresh token the newest one.
DelegatedDone(cache, f, b, sv, report) ==
    /\ delegated_token_cache' = cache
    /\ file' = f
    /\ blob' = b
    /\ saved' = sv
    /\ last' = report
    /\ newest_rt' = IF report.refresh_reply.status = "ok" THEN cache.refresh_token
                    ELSE newest_rt

\* The refresh token each refresh grant carries: the local `refresh_token` that
\* line 263 read from the cache, in the assertion form and in the secret form.
SentWith(cache, grants) == [i \in 1..Len(grants) |-> cache.refresh_token]

\* A store that, left without a delegated token, hands out a legacy token.
RefreshFailedLegacy(cache, grants, nreq, loaded) ==
    DelegatedDone(cache, file, blob, saved,
                  [Returned("get_graph_delegated_token",
                            [access_token |-> "LEG1", expires_at |-> now + DEFAULT_EXPIRES_IN],
                            "acquired", DEFAULT_EXPIRES_IN, nreq + 1, loaded)
                      EXCEPT !.grants = grants])

\* A refresher without its except clause: the failure of the grant escapes.
RefreshFailedUncaught(cache, grants, nreq, loaded) ==
    DelegatedDone(cache, file, blob, saved,
                  [Raised("get_graph_delegated_token", "HTTPStatusError", "", nreq, loaded)
                      EXCEPT !.grants = grants])

\* A refresher that empties the memory when it fails.
RefreshFailedClears(cache, grants, nreq, loaded) ==
    DelegatedDone(EmptyDelegatedCache, file, blob, saved,
                  [Raised("get_graph_delegated_token", "DelegatedAuthRequired",
                          LoginUrl, nreq, loaded)
                      EXCEPT !.grants = grants, !.sent = SentWith(cache, grants)])

\* _refresh_delegated_token() returned False: raise DelegatedAuthRequired.
RefreshFailed(cache, grants, nreq, loaded) ==
    DelegatedDone(cache, file, blob, saved,
                  [Raised("get_graph_delegated_token", "DelegatedAuthRequired",
                          LoginUrl, nreq, loaded)
                      EXCEPT !.grants = grants, !.sent = SentWith(cache, grants)])

\* An exception of _refresh_delegated_token() that its except clause does not catch.
RefreshEscaped(cache, exc, grants, nreq, loaded) ==
    DelegatedDone(cache, file, blob, saved,
                  [Raised("get_graph_delegated_token", exc, "", nreq, loaded)
                      EXCEPT !.grants = grants, !.sent = SentWith(cache, grants)])

\* A store whose save is best-effort on both backends.
RefreshAcceptedBestEffort(cache, reply, grants, nreq, loaded) ==
    IF reply.status = "bad_body"
    THEN RefreshEscaped(cache, "ValueError", grants, nreq, loaded)
    ELSE IF ~Has(reply.access_token)
    THEN RefreshFailed(cache, grants, nreq, loaded)
    ELSE LET entry == RefreshedEntry(reply, cache.refresh_token)
             report == [Returned("get_graph_delegated_token", entry, "refreshed",
                                 Get(reply.expires_in, DEFAULT_EXPIRES_IN), nreq, loaded)
                           EXCEPT !.grants = grants, !.sent = SentWith(cache, grants),
                                  !.refresh_reply = reply, !.save = "ok"]
             failed == [report EXCEPT !.save = "failed"]
         IN  \E write_ok \in BOOLEAN :
               IF ~write_ok
               THEN DelegatedDone(entry, file, blob, saved, failed)
               ELSE IF cfg.TOKEN_STORAGE_URL
               THEN DelegatedDone(entry, file, SavePayload(entry), saved, report)
               ELSE DelegatedDone(entry, SavePayload(entry), blob, entry, report)

\* auth.py 301-306 on the reply that was not rejected: parse, update the cache,
\* _save_delegated_cache(), return True; get_graph_delegated_token returns the token.
\* write_ok is the outcome of upload_blob / write_text.
RefreshAccepted(cache, reply, grants, nreq, loaded) ==
    IF reply.status = "bad_body"
    THEN RefreshEscaped(cache, "ValueError", grants, nreq, loaded)
    ELSE IF ~Has(reply.access_token)
    THEN RefreshFailed(cache, grants, nreq, loaded)
    ELSE LET entry == RefreshedEntry(reply, cache.refresh_token)
             report == [Returned("get_graph_delegated_token", entry, "refreshed",
                                 Get(reply.expires_in, DEFAULT_EXPIRES_IN), nreq, loaded)
                           EXCEPT !.grants = grants, !.sent = SentWith(cache, grants),
                                  !.refresh_reply = reply, !.save = "ok"]
             failed == [report EXCEPT !.save = "failed"]
         IN  \E write_ok \in BOOLEAN :
               IF cfg.TOKEN_STORAGE_URL
               THEN IF write_ok
                    THEN DelegatedDone(entry, file, SavePayload(entry), saved, report)
                    ELSE DelegatedDone(entry, file, blob, saved, failed)
               ELSE IF write_ok
                    THEN DelegatedDone(entry, SavePayload(entry), blob, entry, report)
                    ELSE DelegatedDone(entry, file, blob, saved,
                            [failed EXCEPT !.kind = "OSError", !.val = "", !.exp = 0,
                                           !.src = "none", !.ttl = 0])

\* A refresher that sends the secret form whatever the assertion form got.
SecretGrantAlways(reply) == TRUE

\* auth.py 289: resp2.status_code >= 400 after the assertion-form grant.
SecretGrantNeeded(reply) == reply.status = "http_error"

\* _refresh_delegated_token() on the cache left by the load, and the end of
\* get_graph_delegated_token().
refresh_delegated_token(cache, loaded) ==
    IF ~Truthy(cache.refresh_token)
    THEN RefreshFailed(cache, <<>>, 0, loaded)
    ELSE \E reply1 \in BootstrapReplies :
           IF reply1.status = "bad_body"
           THEN RefreshEscaped(cache, "ValueError", <<>>, 1, loaded)
           ELSE IF reply1.status # "ok" \/ ~Has(reply1.access_token)
           THEN RefreshFailed(cache, <<>>, 1, loaded)
           ELSE \E reply2 \in RefreshReplies :
                  IF reply2.status = "transport"
                  THEN RefreshFailed(cache, <<reply2.status>>, 2, loaded)
                  ELSE IF SecretGrantNeeded(reply2)
                  THEN \E reply3 \in RefreshReplies :
                         LET grants == <<reply2.status, reply3.status>>
                         IN  IF reply3.status \in {"transport", "http_error"}
                             THEN RefreshFailed(cache, grants, 3, loaded)
                             ELSE RefreshAccepted(cache, reply3, grants, 3, loaded)
                  ELSE RefreshAccepted(cache, reply2, <<reply2.status>>, 2, loaded)

\* get_graph_delegated_token()
GetGraphDelegatedToken ==
    /\ workload = (IF use_agent_id THEN "delegated" ELSE "application")
    /\ IF ~use_agent_id
       THEN /\ \E reply \in LegacyReplies :
                 get_legacy_token("get_graph_delegated_token", reply)
            /\ UNCHANGED <<delegated_token_cache, file, blob, saved, newest_rt>>
       ELSE /\ \E read_ok \in BOOLEAN :
                 LET ld == load_delegated_cache(delegated_token_cache, read_ok)
                 IN  IF Valid(ld.cache)
                     THEN DelegatedDone(ld.cache, file, blob, saved,
                            Returned("get_graph_delegated_token", ld.cache,
                                     IF ld.loaded = "ok" THEN "reload" ELSE "cache",
                                     0, 0, ld.loaded))
                     ELSE refresh_delegated_token(ld.cache, ld.loaded)
            /\ UNCHANGED legacy_token_cache
    /\ since_clear' = IF since_clear = "written" THEN "got" ELSE "none"
    /\ recovery' = IF last'.kind = "DelegatedAuthRequired" THEN "raised"
                   ELSE IF recovery = "signed_in" THEN "retried" ELSE "none"
    /\ UNCHANGED <<now, cfg, workload, agent_token_cache, server_up, state, issued>>
    /\ UNCHANGED <<pollVars, raceVars, streamVars>>

\* clear_delegated_cache()
ClearDelegatedCache ==
    /\ workload = "delegated"
    /\ delegated_token_cache' = EmptyDelegatedCache
    /\ since_clear' = "cleared"
    /\ UNCHANGED <<recovery, newest_rt>>
    /\ last' = [Idle EXCEPT !.op = "clear_delegated_cache"]
    /\ UNCHANGED <<now, cfg, workload, legacy_token_cache, agent_token_cache, file, blob,
                   server_up, state, issued, saved>>
    /\ UNCHANGED <<pollVars, raceVars, streamVars>>

\* ------------------------------------------------ callback handler (4.5)

\* The durable location the store reads and the one the deployed handler writes
\* (auth_server._save_token: the file; callback._save_token_to_blob: the blob).
StoreUsesBlob == cfg.TOKEN_STORAGE_URL
HandlerUsesBlob == cfg.handler = "hosted"
SameLocation == StoreUsesBlob = HandlerUsesBlob

\* auth_server.main(): a new process imports the module (a new _state) and serves.
\* It exits at once unless the blueprint identity is configured.
StartServer ==
    /\ workload # "application"
    /\ cfg.handler = "standalone"
    /\ use_agent_id
    /\ ~server_up
    /\ server_up' = TRUE
    /\ state < MaxNonces
    /\ state' = state + 1
    /\ last' = [Idle EXCEPT !.op = "start_server"]
    /\ UNCHANGED <<now, cfg, workload, legacy_token_cache, agent_token_cache,
                   delegated_token_cache, file, blob, issued, since_clear, recovery, newest_rt, saved>>
    /\ UNCHANGED <<pollVars, raceVars, streamVars>>

\* GET /login: 302 to the authorize endpoint with a state value.  The standalone
\* server sends its _state; the hosted function draws a new value and keeps nothing.
Login ==
    /\ workload # "application"
    /\ use_agent_id
    /\ IF cfg.handler = "standalone"
       THEN server_up /\ issued' = state
       ELSE issued < MaxNonces /\ issued' = issued + 1
    /\ last' = [Idle EXCEPT !.op = "login", !.status = 302, !.st = issued']
    /\ UNCHANGED <<now, cfg, workload, legacy_token_cache, agent_token_cache,
                   delegated_token_cache, file, blob, server_up, state,
                   since_clear, recovery, newest_rt, saved>>
    /\ UNCHANGED <<pollVars, raceVars, streamVars>>

\* The requests and replies the handler faces in this run.  The handler only adds
\* a reply's TTL to the clock, so alone it sees one TTL per grant.
CallbackStates == IF FullHandler THEN (0..issued) \cup {Forged} ELSE {issued}
CallbackErrors == IF FullHandler THEN BOOLEAN ELSE {FALSE}
HandlerWrites == IF FullHandler THEN BOOLEAN ELSE {TRUE}
HandlerBootstrapReplies ==
    IF FullHandler THEN BootstrapReplies
    ELSE {r \in BootstrapReplies : r.status = "ok" /\ Has(r.access_token)}
HandlerRedeemReplies ==
    IF FullHandler THEN RedeemReplies
    ELSE {r \in RedeemReplies : r.status = "ok" /\ Has(r.access_token)}
HandlerOboReplies ==
    IF FullHandler THEN {r \in OboReplies : r.expires_in # <<SKEW>>}
    ELSE {r \in OboReplies : r.status = "http_error"
                                \/ (r.status = "ok" /\ Has(r.access_token))}
HandlerConsentReplies ==
    IF FullHandler THEN ConsentReplies
    ELSE {r \in ConsentReplies : r.status = "ok" /\ Has(r.access_token)}

\* The token dict built of a reply: .get("access_token", ""), .get("refresh_token", ""),
\* time.time() + .get("expires_in", 3600).
TokenData(reply) ==
    [access_token |-> Get(reply.access_token, ""),
     refresh_token |-> Get(reply.refresh_token, ""),
     expires_at |-> now + Get(reply.expires_in, DEFAULT_EXPIRES_IN)]

\* A consent-only record whose refresh token is null instead of "".
ConsentTokenDataNullRefresh(reply) ==
    [access_token |-> reply.access_token[1], refresh_token |-> None,
     expires_at |-> now + Get(reply.expires_in, DEFAULT_EXPIRES_IN)]

\* The token dict of the consent-only path: the refresh token is "".
ConsentTokenData(reply) ==
    [access_token |-> reply.access_token[1], refresh_token |-> "",
     expires_at |-> now + Get(reply.expires_in, DEFAULT_EXPIRES_IN)]

\* The callback answers `report.status` and leaves the durable objects alone.
\* The standalone server keeps serving (it returns before the shutdown).
Respond(report) ==
    /\ last' = report
    /\ UNCHANGED <<file, blob, server_up, since_clear, recovery, newest_rt, saved>>

\* A handler that answers 200 whether or not the write went through.
SaveAndRespondUnchecked(token, report) ==
    \E write_ok \in HandlerWrites :
      IF ~write_ok
      THEN Respond([report EXCEPT !.status = 200, !.save = "failed"])
      ELSE /\ last' = [report EXCEPT !.status = 200, !.save = "ok"]
           /\ IF HandlerUsesBlob
              THEN /\ blob' = JsonDumps(token)
                   /\ UNCHANGED <<file, server_up, saved>>
              ELSE /\ file' = JsonDumps(token)
                   /\ server_up' = FALSE
                   /\ saved' = NoToken
                   /\ UNCHANGED blob
           /\ since_clear' = IF SameLocation /\ since_clear \in {"cleared", "written"}
                             THEN "written" ELSE since_clear
           /\ recovery' = IF SameLocation /\ recovery \in {"raised", "signed_in"}
                          THEN "signed_in" ELSE recovery
           /\ newest_rt' = IF SameLocation THEN token.refresh_token ELSE newest_rt

\* _save_token(token) / _save_token_to_blob(token), then the 200 response; the
\* standalone server then shuts down.  A failed write raises into the handler's
\* except clause: 500.
SaveAndRespond(token, report) ==
    \E write_ok \in HandlerWrites :
      IF ~write_ok
      THEN Respond([report EXCEPT !.status = 500, !.save = "failed"])
      ELSE /\ last' = [report EXCEPT !.status = 200, !.save = "ok"]
           /\ IF HandlerUsesBlob
              THEN /\ blob' = JsonDumps(token)
                   /\ UNCHANGED <<file, server_up, saved>>
              ELSE /\ file' = JsonDumps(token)
                   /\ server_up' = FALSE
                   /\ saved' = NoToken
                   /\ UNCHANGED blob
           /\ since_clear' = IF SameLocation /\ since_clear \in {"cleared", "written"}
                             THEN "written" ELSE since_clear
           /\ recovery' = IF SameLocation /\ recovery \in {"raised", "signed_in"}
                          THEN "signed_in" ELSE recovery
           /\ newest_rt' = IF SameLocation THEN token.refresh_token ELSE newest_rt

\* A handler that saves the redeemed token whatever the OBO attempt gave.
final_token_direct(token_data, obo_result) == token_data

\* The token the handler saves after the OBO attempt: `obo_result if obo_result
\* else token_data`.  NoToken stands for the None that _try_obo_exchange returns.
final_token(token_data, obo_result) ==
    IF obo_result # NoToken THEN obo_result ELSE token_data

\* A reply that makes _get_bootstrap_token() raise.
BootstrapRaises(reply) == reply.status # "ok" \/ ~Has(reply.access_token)

\* An OBO attempt that reuses a bootstrap token instead of minting one.
try_obo_exchange_without_mint(tc, report) ==
    \E reply2 \in HandlerOboReplies :
      LET rep == [report EXCEPT !.nreq = report.nreq + 1, !.obo_reply = reply2]
      IN  IF reply2.status \in {"transport", "bad_body"}
          THEN Respond([rep EXCEPT !.status = 500, !.obo = "grant_error"])
          ELSE IF reply2.status = "http_error"
          THEN SaveAndRespond(final_token(tc, NoToken),
                              [rep EXCEPT !.obo = "grant_rejected"])
          ELSE IF ~Has(reply2.access_token)
          THEN Respond([rep EXCEPT !.status = 500, !.obo = "no_access_token"])
          ELSE SaveAndRespond(final_token(tc, TokenData(reply2)),
                              [rep EXCEPT !.obo = "ok"])

\* _try_obo_exchange(tc.access_token) and the save that follows (handler lines
\* 182-190 / 102-111); report carries the redemption's outcome.
try_obo_exchange(tc, report) ==
    \E reply1 \in HandlerBootstrapReplies :
      IF BootstrapRaises(reply1)
      THEN Respond([report EXCEPT !.status = 500, !.obo = "t1_failed",
                                  !.nreq = report.nreq + 1])
      ELSE \E reply2 \in HandlerOboReplies :
             LET rep == [report EXCEPT !.nreq = report.nreq + 2, !.obo_reply = reply2]
             IN  IF reply2.status \in {"transport", "bad_body"}
                 THEN Respond([rep EXCEPT !.status = 500, !.obo = "grant_error"])
                 ELSE IF reply2.status = "http_error"
                 THEN SaveAndRespond(final_token(tc, NoToken),
                                     [rep EXCEPT !.obo = "grant_rejected"])
                 ELSE IF ~Has(reply2.access_token)
                 THEN Respond([rep EXCEPT !.status = 500, !.obo = "no_access_token"])
                 ELSE SaveAndRespond(final_token(tc, TokenData(reply2)),
                                     [rep EXCEPT !.obo = "ok"])

\* _obo_exchange(code) / obo_exchange(code): redeem the code with the blueprint
\* secret, on status >= 400 with the agent id and a bootstrap assertion; then the
\* OBO attempt.
obo_exchange(report) ==
    \E reply1 \in HandlerRedeemReplies :
      IF reply1.status \in {"transport", "bad_body"}
      THEN Respond([report EXCEPT !.status = 500, !.redeem = "failed", !.nreq = 1])
      ELSE IF reply1.status = "ok"
      THEN try_obo_exchange(TokenData(reply1),
             [report EXCEPT !.redeem = "primary", !.nreq = 1, !.tc = TokenData(reply1)])
      ELSE \E replyb \in HandlerBootstrapReplies :
             IF BootstrapRaises(replyb)
             THEN Respond([report EXCEPT !.status = 500, !.redeem = "failed", !.nreq = 2])
             ELSE \E reply2 \in HandlerRedeemReplies :
                    IF reply2.status # "ok"
                    THEN Respond([report EXCEPT !.status = 500, !.redeem = "failed",
                                                !.nreq = 3])
                    ELSE try_obo_exchange(TokenData(reply2),
                           [report EXCEPT !.redeem = "fallback", !.nreq = 3,
                                          !.tc = TokenData(reply2)])

\* The consent-only path: a bootstrap token, then an app-only token with it as
\* client_assertion, saved as the delegated record.
consent_only(report) ==
    \E reply1 \in HandlerBootstrapReplies :
      IF BootstrapRaises(reply1)
      THEN Respond([report EXCEPT !.status = 500, !.nreq = 1])
      ELSE \E reply2 \in HandlerConsentReplies :
             IF reply2.status # "ok" \/ ~Has(reply2.access_token)
             THEN Respond([report EXCEPT !.status = 500, !.nreq = 2])
             ELSE SaveAndRespond(ConsentTokenData(reply2), [report EXCEPT !.nreq = 2])

\* CallbackHandler.do_GET for /callback of the standalone server.
do_GET_callback(st, error, code) ==
    LET report == [Idle EXCEPT !.op = "callback", !.st = st, !.error = error,
                               !.code = code]
    IN  IF st # state
        THEN Respond([report EXCEPT !.status = 400])
        ELSE IF error
        THEN Respond([report EXCEPT !.status = 400])
        ELSE IF code
        THEN obo_exchange(report)
        ELSE consent_only(report)

\* A hosted handler that looks at the code before the error.
callback_main_code_first(st, error, code) ==
    LET report == [Idle EXCEPT !.op = "callback", !.st = st, !.error = error,
                               !.code = code]
    IN  IF code
        THEN obo_exchange(report)
        ELSE IF error
        THEN Respond([report EXCEPT !.status = 400])
        ELSE consent_only(report)

\* functions/callback main(): no look at the state parameter.
callback_main(st, error, code) ==
    LET report == [Idle EXCEPT !.op = "callback", !.st = st, !.error = error,
                               !.code = code]
    IN  IF error
        THEN Respond([report EXCEPT !.status = 400])
        ELSE IF ~code
        THEN consent_only(report)
        ELSE obo_exchange(report)

\* GET /callback with query parameters state, error and code.  The browser brings
\* no state, a state that some /login sent, or a forged one.
Callback ==
    /\ workload # "application"
    /\ use_agent_id
    /\ \E st \in CallbackStates, error \in CallbackErrors, code \in BOOLEAN :
         IF cfg.handler = "standalone"
         THEN server_up /\ do_GET_callback(st, error, code)
         ELSE callback_main(st, error, code)
    /\ UNCHANGED <<now, cfg, workload, legacy_token_cache, agent_token_cache,
                   delegated_token_cache, state, issued>>
    /\ UNCHANGED <<pollVars, raceVars, streamVars>>

\* -------------------------------------------- token-arrival poller (4.6)

\* The fixed polling interval: 3 seconds.
POLL_INTERVAL == 3

\* The timeouts a caller passes: 0 .. MaxTimeout seconds.
MaxTimeout == 7
\* The handler elsewhere writes the durable object at most MaxWrites times.
MaxWrites == 2

\* A Callback Handler in another process or container overwrites the durable
\* object: its last-modified stamp changes.
ExternalWrite ==
    /\ workload = "poller"
    /\ last_modified < MaxWrites
    /\ last_modified' = last_modified + 1
    /\ UNCHANGED <<poll_pc, timeout, baseline, elapsed, result, observed>>
    /\ UNCHANGED <<authVars, raceVars, streamVars>>

\* wait_for_fresh_token(t): record the current stamp (or "absent"), then poll.
WaitForFreshToken ==
    /\ workload = "poller"
    /\ poll_pc \in {"idle", "done"}
    /\ \E t \in 0..MaxTimeout : timeout' = t
    /\ baseline' = last_modified
    /\ elapsed' = 0
    /\ result' = FALSE
    /\ observed' = FALSE
    /\ poll_pc' = "poll"
    /\ UNCHANGED last_modified
    /\ UNCHANGED <<authVars, raceVars, streamVars>>

\* A check for the object's existence instead of a change.
ChangedExists(stamp, recorded) == stamp # NotModified

\* "the last-modified timestamp changes (a new write occurred)"
Changed(stamp, recorded) == stamp # recorded

\* One check: give up once the timeout has elapsed, return true on a changed
\* stamp, sleep otherwise.
Poll ==
    /\ poll_pc = "poll"
    /\ observed' = (observed \/ (elapsed < timeout /\ last_modified # baseline))
    /\ IF elapsed >= timeout
       THEN poll_pc' = "done" /\ result' = FALSE
       ELSE IF Changed(last_modified, baseline)
       THEN poll_pc' = "done" /\ result' = TRUE
       ELSE poll_pc' = "sleep" /\ UNCHANGED result
    /\ UNCHANGED <<last_modified, timeout, baseline, elapsed>>
    /\ UNCHANGED <<authVars, raceVars, streamVars>>

\* The sleep between two checks.
Sleep ==
    /\ poll_pc = "sleep"
    /\ elapsed' = elapsed + POLL_INTERVAL
    /\ poll_pc' = "poll"
    /\ UNCHANGED <<last_modified, timeout, baseline, result, observed>>
    /\ UNCHANGED <<authVars, raceVars, streamVars>>

Next ==
    \/ Tick
    \/ GetGraphToken
    \/ GetGraphDelegatedToken
    \/ ClearDelegatedCache
    \/ StartServer
    \/ Login
    \/ Callback

Spec == Init /\ [][Next]_vars

\* The callback handler alone, in a blueprint deployment.  The handler reads the
\* clock only to stamp expires_at, so the clock stands still here.
InitCallback == Start({"callback"}) /\ use_agent_id /\ SameLocation

NextCallback ==
    \/ StartServer
    \/ Login
    \/ Callback

CallbackSpec == InitCallback /\ [][NextCallback]_vars

\* The poller of a hosted deployment and the handler writing elsewhere.  The
\* poller's checks and sleeps are its own thread's steps: once called it keeps
\* running.
InitPoll == Start({"poller"}) /\ use_agent_id /\ StoreUsesBlob /\ HandlerUsesBlob

NextPoll ==
    \/ ExternalWrite
    \/ WaitForFreshToken
    \/ Poll
    \/ Sleep

PollSpec == InitPoll /\ [][NextPoll]_vars /\ WF_vars(Poll \/ Sleep)

\* The application-token callers under every combination of set and unset
\* identity fields (the storage location and the handler play no part).
ModeConfigs == {c \in Configs : ~c.TOKEN_STORAGE_URL /\ c.handler = "standalone"}

InitMode == StartIn(ModeConfigs, {"application"})

NextMode ==
    \/ Tick
    \/ GetGraphToken
    \/ GetGraphDelegatedToken

ModeSpec == InitMode /\ [][NextMode]_vars

\* ------------------------------- concurrent callers of get_graph_token (5)

\* The provider answers at most MaxResponses acquisitions in one run.
MaxResponses == 3

\* Thread t moves to `pc`, its other locals as in `locals`.
Goto(t, pc, locals) == thread' = [thread EXCEPT ![t] = [locals EXCEPT !.pc = pc]]

\* What a thread step leaves alone besides the agent cache and its history.
ThreadFrame ==
    /\ workload = "threads"
    /\ UNCHANGED <<now, cfg, workload, legacy_token_cache, delegated_token_cache, file, blob,
                   server_up, state, issued, last, since_clear, recovery, newest_rt, saved>>
    /\ UNCHANGED <<pollVars, streamVars>>

\* A thread calls get_graph_token() (blueprint mode).
Call ==
    /\ \E t \in Threads :
         /\ thread[t].pc = "idle"
         /\ Goto(t, "check_token", ThreadIdle)
    /\ UNCHANGED <<agent_token_cache, origin, responses>>
    /\ ThreadFrame

\* auth.py 137, left operand: _agent_token_cache["access_token"] is truthy.
CheckToken ==
    /\ \E t \in Threads :
         /\ thread[t].pc = "check_token"
         /\ IF Truthy(agent_token_cache.access_token)
            THEN Goto(t, "check_expiry", thread[t])
            ELSE Goto(t, "acquire", thread[t])
    /\ UNCHANGED <<agent_token_cache, origin, responses>>
    /\ ThreadFrame

\* auth.py 137, right operand: time.time() < _agent_token_cache["expires_at"] - 60.
CheckExpiry ==
    /\ \E t \in Threads :
         /\ thread[t].pc = "check_expiry"
         /\ IF now < agent_token_cache.expires_at - SKEW
            THEN Goto(t, "return_cached", [thread[t] EXCEPT !.checked = origin.expires_at])
            ELSE Goto(t, "acquire", thread[t])
    /\ UNCHANGED <<agent_token_cache, origin, responses>>
    /\ ThreadFrame

\* auth.py 138: return _agent_token_cache["access_token"].
ReturnCached ==
    /\ \E t \in Threads :
         /\ thread[t].pc = "return_cached"
         /\ Goto(t, "idle", [thread[t] EXCEPT !.handed = agent_token_cache.access_token,
                                               !.handed_of = origin.access_token,
                                               !.outcome = "returned"])
    /\ UNCHANGED <<agent_token_cache, origin, responses>>
    /\ ThreadFrame

\* auth.py 139: body = _acquire_agent_app_token(); a failed grant raises out of
\* get_graph_token().
Acquire ==
    /\ responses < MaxResponses
    /\ \E t \in Threads :
         /\ thread[t].pc = "acquire"
         /\ \E reply1 \in BootstrapReplies, reply2 \in AgentReplies :
              IF \/ reply1.status # "ok" \/ ~Has(reply1.access_token)
                 \/ reply2.status # "ok" \/ ~Has(reply2.access_token)
              THEN /\ Goto(t, "idle", [thread[t] EXCEPT !.outcome = "raised"])
                   /\ UNCHANGED responses
              ELSE /\ Goto(t, "set_token", [thread[t] EXCEPT !.body = reply2,
                                                             !.id = responses + 1])
                   /\ responses' = responses + 1
    /\ UNCHANGED <<agent_token_cache, origin>>
    /\ ThreadFrame

\* auth.py 140: _agent_token_cache["access_token"] = body["access_token"].
SetToken ==
    /\ \E t \in Threads :
         /\ thread[t].pc = "set_token"
         /\ agent_token_cache' =
               [agent_token_cache EXCEPT !.access_token = thread[t].body.access_token[1]]
         /\ origin' = [origin EXCEPT !.access_token = thread[t].id]
         /\ Goto(t, "set_expiry", thread[t])
    /\ UNCHANGED responses
    /\ ThreadFrame

\* auth.py 141: _agent_token_cache["expires_at"] = time.time() + body.get("expires_in", 3600).
SetExpiry ==
    /\ \E t \in Threads :
         /\ thread[t].pc = "set_expiry"
         /\ agent_token_cache' =
               [agent_token_cache EXCEPT
                  !.expires_at = now + Get(thread[t].body.expires_in, DEFAULT_EXPIRES_IN)]
         /\ origin' = [origin EXCEPT !.expires_at = thread[t].id]
         /\ Goto(t, "return_stored", thread[t])
    /\ UNCHANGED responses
    /\ ThreadFrame

\* auth.py 142: return _agent_token_cache["access_token"].
ReturnStored ==
    /\ \E t \in Threads :
         /\ thread[t].pc = "return_stored"
         /\ Goto(t, "idle", [thread[t] EXCEPT !.handed = agent_token_cache.access_token,
                                               !.handed_of = origin.access_token,
                                               !.outcome = "returned"])
    /\ UNCHANGED <<agent_token_cache, origin, responses>>
    /\ ThreadFrame

\* The clock while the threads run.
ThreadTick ==
    /\ workload = "threads"
    /\ Tick

InitRace == StartIn({c \in ModeConfigs : ~c.GRAPH_CLIENT_ID /\ ~c.GRAPH_CLIENT_SECRET},
                    {"threads"}) /\ use_agent_id

NextRace ==
    \/ ThreadTick
    \/ Call
    \/ CheckToken
    \/ CheckExpiry
    \/ ReturnCached
    \/ Acquire
    \/ SetToken
    \/ SetExpiry
    \/ ReturnStored

RaceSpec == InitRace /\ [][NextRace]_vars

\* ----------- get_graph_delegated_token beside clear_delegated_cache (5)

\* What a step of a thread in get_graph_delegated_token() or
\* clear_delegated_cache() leaves alone besides the delegated cache and the blob.
DelegatedThreadFrame ==
    /\ workload = "clearing"
    /\ UNCHANGED <<now, cfg, workload, legacy_token_cache, agent_token_cache, file, server_up,
                   state, issued, last, since_clear, recovery, newest_rt, saved,
                   origin, responses>>
    /\ UNCHANGED <<pollVars, streamVars>>

\* A thread calls get_graph_delegated_token() (blueprint mode).
DelegatedCall ==
    /\ \E t \in Threads :
         /\ thread[t].pc = "idle"
         /\ Goto(t, "load", ThreadIdle)
    /\ UNCHANGED <<delegated_token_cache, blob>>
    /\ DelegatedThreadFrame

\* auth.py 158: _load_delegated_cache().
DelegatedLoad ==
    /\ \E t \in Threads, read_ok \in BOOLEAN :
         /\ thread[t].pc = "load"
         /\ delegated_token_cache' = load_delegated_cache(delegated_token_cache, read_ok).cache
         /\ Goto(t, "check_token", thread[t])
    /\ UNCHANGED blob
    /\ DelegatedThreadFrame

\* auth.py 161, left operand: _delegated_token_cache["access_token"] is truthy.
DelegatedCheckToken ==
    /\ \E t \in Threads :
         /\ thread[t].pc = "check_token"
         /\ IF Truthy(delegated_token_cache.access_token)
            THEN Goto(t, "check_expiry", thread[t])
            ELSE Goto(t, "refresh", thread[t])
    /\ UNCHANGED <<delegated_token_cache, blob>>
    /\ DelegatedThreadFrame

\* auth.py 161, right operand: time.time() < _delegated_token_cache["expires_at"] - 60.
DelegatedCheckExpiry ==
    /\ \E t \in Threads :
         /\ thread[t].pc = "check_expiry"
         /\ IF now < delegated_token_cache.expires_at - SKEW
            THEN Goto(t, "return_cached", thread[t])
            ELSE Goto(t, "refresh", thread[t])
    /\ UNCHANGED <<delegated_token_cache, blob>>
    /\ DelegatedThreadFrame

\* auth.py 162 and 166: return _delegated_token_cache["access_token"].
DelegatedReturn ==
    /\ \E t \in Threads :
         /\ thread[t].pc \in {"return_cached", "return_refreshed"}
         /\ Goto(t, "idle", [thread[t] EXCEPT !.handed = delegated_token_cache.access_token,
                                               !.outcome = "returned"])
    /\ UNCHANGED <<delegated_token_cache, blob>>
    /\ DelegatedThreadFrame

\* auth.py 165: _refresh_delegated_token() as one step; reply is the reply of
\* the last grant it sent.  False or an exception ends the call with a raise
\* (169); True leaves the cache updated and saved.
DelegatedRefresh ==
    /\ \E t \in Threads :
         /\ thread[t].pc = "refresh"
         /\ IF ~Truthy(delegated_token_cache.refresh_token)
            THEN /\ Goto(t, "idle", [thread[t] EXCEPT !.outcome = "raised"])
                 /\ UNCHANGED <<delegated_token_cache, blob>>
            ELSE \E reply \in RefreshReplies, write_ok \in BOOLEAN :
                   IF reply.status # "ok" \/ ~Has(reply.access_token)
                   THEN /\ Goto(t, "idle", [thread[t] EXCEPT !.outcome = "raised"])
                        /\ UNCHANGED <<delegated_token_cache, blob>>
                   ELSE LET entry == RefreshedEntry(reply, delegated_token_cache.refresh_token)
                        IN  /\ delegated_token_cache' = entry
                            /\ blob' = IF write_ok THEN SavePayload(entry) ELSE blob
                            /\ Goto(t, "return_refreshed", thread[t])
    /\ DelegatedThreadFrame

\* A thread calls clear_delegated_cache().
ClearCall ==
    /\ \E t \in Threads :
         /\ thread[t].pc = "idle"
         /\ Goto(t, "clear_token", ThreadIdle)
    /\ UNCHANGED <<delegated_token_cache, blob>>
    /\ DelegatedThreadFrame

\* auth.py 252: _delegated_token_cache["access_token"] = None.
ClearToken ==
    /\ \E t \in Threads :
         /\ thread[t].pc = "clear_token"
         /\ delegated_token_cache' = [delegated_token_cache EXCEPT !.access_token = None]
         /\ Goto(t, "clear_refresh", thread[t])
    /\ UNCHANGED blob
    /\ DelegatedThreadFrame

\* auth.py 253: _delegated_token_cache["refresh_token"] = None.
ClearRefresh ==
    /\ \E t \in Threads :
         /\ thread[t].pc = "clear_refresh"
         /\ delegated_token_cache' = [delegated_token_cache EXCEPT !.refresh_token = None]
         /\ Goto(t, "clear_expiry", thread[t])
    /\ UNCHANGED blob
    /\ DelegatedThreadFrame

\* auth.py 254: _delegated_token_cache["expires_at"] = 0.0.
ClearExpiry ==
    /\ \E t \in Threads :
         /\ thread[t].pc = "clear_expiry"
         /\ delegated_token_cache' = [delegated_token_cache EXCEPT !.expires_at = 0]
         /\ Goto(t, "idle", thread[t])
    /\ UNCHANGED blob
    /\ DelegatedThreadFrame

\* A hosted deployment in blueprint mode whose store reads the blob.
ClearRaceConfigs ==
    {c \in Configs : /\ c.GRAPH_BLUEPRINT_CLIENT_ID /\ c.GRAPH_BLUEPRINT_SECRET
                     /\ c.GRAPH_AGENT_CLIENT_ID
                     /\ ~c.GRAPH_CLIENT_ID /\ ~c.GRAPH_CLIENT_SECRET
                     /\ c.TOKEN_STORAGE_URL /\ c.handler = "hosted"}

InitClearRace == StartIn(ClearRaceConfigs, {"clearing"})

\* The threads of the store's process, and the callback function that writes
\* the blob they read.
NextClearRace ==
    \/ Callback
    \/ DelegatedCall
    \/ DelegatedLoad
    \/ DelegatedCheckToken
    \/ DelegatedCheckExpiry
    \/ DelegatedReturn
    \/ DelegatedRefresh
    \/ ClearCall
    \/ ClearToken
    \/ ClearRefresh
    \/ ClearExpiry

ClearRaceSpec == InitClearRace /\ [][NextClearRace]_vars

\* ------------------------------------ streamed responses of the hosted server

\* _stream_response is an async generator on the server's event loop: it runs
\* from one suspension to the next without interruption, and it is suspended
\* at each yield and while it awaits the next update of the agent stream.
\* Several generators of the one instance take turns at these points.

\* Everything but the server instance and its responses stays as it is.
StreamFrame ==
    /\ workload = "streaming"
    /\ UNCHANGED <<authVars, pollVars, raceVars>>

\* _next_seq() for the event `type` of response s, which then waits at `pc`:
\* the event carries the counter's value and the counter moves on by one.
next_seq(s, counter, type, pc) ==
    /\ stream' = [stream EXCEPT ![s].pc = pc,
                                ![s].emitted = @ + 1,
                                ![s].event = [type |-> type,
                                              sequence_number |-> counter]]
    /\ seq' = counter + 1

\* The generator's first run, lines 111-120: the counter is set to 0 and the
\* created event takes its sequence number.
StreamCreated(s) ==
    /\ StreamFrame
    /\ stream[s].pc = "idle"
    /\ next_seq(s, 0, "response.created", "in_progress")

\* Lines 122-125.
StreamInProgress(s) ==
    /\ StreamFrame
    /\ stream[s].pc = "in_progress"
    /\ next_seq(s, seq, "response.in_progress", "output_item_added")

\* Lines 127-137.
StreamOutputItemAdded(s) ==
    /\ StreamFrame
    /\ stream[s].pc = "output_item_added"
    /\ next_seq(s, seq, "response.output_item.added", "content_part_added")

\* Lines 139-146.
StreamContentPartAdded(s) ==
    /\ StreamFrame
    /\ stream[s].pc = "content_part_added"
    /\ next_seq(s, seq, "response.content_part.added", "agent")

\* Lines 151-164: the agent stream delivers an update; one with text is sent
\* on as a delta, one without text is only counted.
StreamUpdate(s) ==
    /\ StreamFrame
    /\ stream[s].pc = "agent"
    /\ stream[s].update_count < MaxUpdates
    /\ \E text \in BOOLEAN :
          IF text
          THEN /\ stream' = [stream EXCEPT
                     ![s].update_count = @ + 1,
                     ![s].emitted = @ + 1,
                     ![s].event = [type |-> "response.output_text.delta",
                                   sequence_number |-> seq]]
               /\ seq' = seq + 1
          ELSE /\ stream' = [stream EXCEPT ![s].update_count = @ + 1]
               /\ UNCHANGED seq

\* Lines 165-175: the agent stream raises, at its start or between updates; the
\* error text is sent as a delta and the response goes on to its closing events.
StreamError(s) ==
    /\ StreamFrame
    /\ stream[s].pc = "agent"
    /\ next_seq(s, seq, "response.output_text.delta", "text_done")

\* Lines 180-186, reached when the agent stream has ended or after the error
\* delta.
StreamTextDone(s) ==
    /\ StreamFrame
    /\ stream[s].pc \in {"agent", "text_done"}
    /\ next_seq(s, seq, "response.output_text.done", "content_part_done")

\* Lines 188-194.
StreamContentPartDone(s) ==
    /\ StreamFrame
    /\ stream[s].pc = "content_part_done"
    /\ next_seq(s, seq, "response.content_part.done", "output_item_done")

\* Lines 196-205.
StreamOutputItemDone(s) ==
    /\ StreamFrame
    /\ stream[s].pc = "output_item_done"
    /\ next_seq(s, seq, "response.output_item.done", "completed")

\* Lines 207-212: the last event; the generator is exhausted.
StreamCompleted(s) ==
    /\ StreamFrame
    /\ stream[s].pc = "completed"
    /\ next_seq(s, seq, "response.completed", "closed")

\* The hosted deployment: blueprint mode with the function app's handler.
StreamConfigs == ClearRaceConfigs

InitStream == StartIn(StreamConfigs, {"streaming"})

NextStream ==
    \E s \in Streams :
        \/ StreamCreated(s)
        \/ StreamInProgress(s)
        \/ StreamOutputItemAdded(s)
        \/ StreamContentPartAdded(s)
        \/ StreamUpdate(s)
        \/ StreamError(s)
        \/ StreamTextDone(s)
        \/ StreamContentPartDone(s)
        \/ StreamOutputItemDone(s)
        \/ StreamCompleted(s)

StreamSpec == InitStream /\ [][NextStream]_vars

\* ------------------------------------------------------------------ claims

GetOps == {"get_graph_token", "get_graph_delegated_token"}

\* The application cache of the deployment's mode.
AppCache == IF use_agent_id THEN agent_token_cache ELSE legacy_token_cache

\* The durable object the store reads.
Durable == IF StoreUsesBlob THEN blob ELSE file

\* C1 as stated: every token that get_graph_token or get_graph_delegated_token
\* returns satisfies now < expires_at - 60 at the moment of return, whatever its
\* origin and whatever TTL the provider reported.
C1_AlwaysFresh ==
    (last.op \in GetOps /\ last.kind = "token") => now < last.exp - SKEW

\* C1 amended: a token returned from the cache or from a durable reload
\* satisfies now < expires_at - 60.  A token just acquired or refreshed is
\* returned unchecked with expires_at = now + TTL, so it satisfies the
\* inequality exactly when the TTL exceeds 60.
C1_FreshUnlessJustIssued ==
    (last.op \in GetOps /\ last.kind = "token") =>
        /\ last.src \in {"cache", "reload", "acquired", "refreshed"}
        /\ last.src \in {"cache", "reload"} => now < last.exp - SKEW
        /\ last.src \in {"acquired", "refreshed"} =>
              /\ last.exp = now + last.ttl
              /\ (now < last.exp - SKEW) <=> (last.ttl > SKEW)

\* A refresh returned a token whose TTL is exactly the margin.
C1_Witness ==
    /\ last.op = "get_graph_delegated_token"
    /\ last.kind = "token"
    /\ last.src = "refreshed"
    /\ last.ttl = SKEW
    /\ now >= last.exp - SKEW

\* C2 as stated: a callback whose state is missing or is not the value the
\* latest /login sent is answered 400, sends no token request and writes nothing.
C2_StateMismatchRejected ==
    (last.op = "callback" /\ (last.st = NoState \/ last.st # issued)) =>
        last.status = 400 /\ last.nreq = 0 /\ last.save = "none"

\* C3 as stated: a call ends with a token or with DelegatedAuthRequired.
C3_TokenOrSignIn ==
    last.op \in GetOps => last.kind \in {"token", "DelegatedAuthRequired"}

\* The outcomes of _get_legacy_token.
LegacyOutcomes ==
    /\ last.kind \in {"token", "RuntimeError", "HTTPStatusError", "TransportError",
                      "ValueError", "KeyError"}
    /\ last.kind = "RuntimeError" <=> ~(cfg.GRAPH_CLIENT_ID /\ cfg.GRAPH_CLIENT_SECRET)

\* C3 amended: get_graph_token returns a token or lets the failure of its grant
\* reach the caller (HTTPStatusError for status >= 400, TransportError,
\* ValueError or KeyError for a malformed body, RuntimeError for a legacy mode
\* without credentials) and never raises DelegatedAuthRequired.  In blueprint
\* mode get_graph_delegated_token returns a token, raises DelegatedAuthRequired
\* with the login URL, or lets a ValueError (refresh reply that is not JSON) or
\* an OSError (local save) escape; in legacy mode it behaves as _get_legacy_token.
C3_Outcomes ==
    /\ last.op = "get_graph_token" =>
          IF use_agent_id
          THEN last.kind \in {"token", "HTTPStatusError", "TransportError",
                              "ValueError", "KeyError"}
          ELSE LegacyOutcomes
    /\ last.op = "get_graph_delegated_token" =>
          IF use_agent_id
          THEN /\ last.kind \in {"token", "DelegatedAuthRequired", "ValueError", "OSError"}
               /\ last.kind = "DelegatedAuthRequired" => last.val = LoginUrl
               /\ last.kind = "OSError" => ~StoreUsesBlob /\ last.save = "failed"
          ELSE LegacyOutcomes

\* The provider rejected the grant of get_graph_token and the caller got the
\* HTTP error.
C3_Witness ==
    last.op = "get_graph_token" /\ last.kind = "HTTPStatusError" /\ last.nreq > 0

\* A refresh_token grant that failed: status >= 400 or a network error.
GrantFailed(status) == status \in {"http_error", "transport"}

C5_GetAfterClearAndWrite ==
    /\ since_clear = "written"
    /\ since_clear' = "got"
    /\ Truthy(LoadRecord(Durable).access_token)
    /\ now < LoadRecord(Durable).expires_at - SKEW

\* C5 as stated: that call returns the written token.
C5_WrittenTokenObserved ==
    [][C5_GetAfterClearAndWrite =>
         last'.kind = "token" /\ last'.val = LoadRecord(Durable).access_token]_vars

\* C5 amended: that call always attempts the read.  If the read succeeds it
\* returns the written token with no token request; if the read fails (the
\* failure is swallowed) it raises DelegatedAuthRequired.
C5_WrittenTokenObservedIfRead ==
    [][C5_GetAfterClearAndWrite =>
         /\ last'.loaded \in {"ok", "failed"}
         /\ last'.nreq = 0
         /\ last'.loaded = "ok" =>
               /\ last'.kind = "token"
               /\ last'.src = "reload"
               /\ last'.val = LoadRecord(Durable).access_token
               /\ delegated_token_cache' = LoadRecord(Durable)
         /\ last'.loaded = "failed" =>
               /\ last'.kind = "DelegatedAuthRequired"
               /\ delegated_token_cache' = EmptyDelegatedCache]_vars

\* After a clear and a handler write, a call reloaded the record and returned
\* the handler's token.
C5_Witness ==
    /\ since_clear = "got"
    /\ last.op = "get_graph_delegated_token"
    /\ last.kind = "token"
    /\ last.src = "reload"
    /\ last.val = "OBO1"
    /\ delegated_token_cache = LoadRecord(Durable)

\* The durable object the deployed handler writes.
HandlerDurable == IF HandlerUsesBlob THEN blob ELSE file

\* The callback redeemed its code, at the first attempt or at the fallback.
Redeemed == last.op = "callback" /\ last.redeem \in {"primary", "fallback"}

\* C6: when the code was redeemed (first attempt or fallback), the jwt-bearer
\* grant succeeded and the write went through, the durable record holds the
\* access token and the refresh token of the OBO reply ("" if it has none) and
\* its expiry, not those of the redeemed user token, and the answer is 200.
C6_OboTokenPersisted ==
    (/\ Redeemed
     /\ last.obo_reply.status = "ok"
     /\ Has(last.obo_reply.access_token)
     /\ last.save = "ok") =>
        /\ last.status = 200
        /\ HandlerDurable # Absent
        /\ LoadRecord(HandlerDurable) =
              [access_token |-> last.obo_reply.access_token[1],
               refresh_token |-> Get(last.obo_reply.refresh_token, ""),
               expires_at |-> now + Get(last.obo_reply.expires_in, DEFAULT_EXPIRES_IN)]
        /\ LoadRecord(HandlerDurable).access_token # last.tc.access_token

\* The fallback redeemed the code, the OBO grant succeeded and its token is in
\* the durable record.
C6_Witness ==
    /\ Redeemed
    /\ last.redeem = "fallback"
    /\ last.tc.access_token = "TC"
    /\ last.obo = "ok"
    /\ last.save = "ok"
    /\ LoadRecord(HandlerDurable).access_token = "OBO1"
    /\ LoadRecord(HandlerDurable).refresh_token = "ROBO"

\* C7 as stated: when the code was redeemed and the OBO attempt failed at the
\* bootstrap request or at the jwt-bearer grant, the user token Tc is in the
\* durable record and the answer is 200 (unless the write itself failed).
C7_TcPersistedOnOboFailure ==
    (/\ Redeemed
     /\ last.obo \in {"t1_failed", "grant_error", "grant_rejected"}
     /\ last.save # "failed") =>
        /\ last.status = 200
        /\ last.save = "ok"
        /\ HandlerDurable = JsonDumps(last.tc)

\* C8: a get_graph_token call made while the application cache of the mode
\* holds a token and now < expires_at - 60 returns that very string, sends no
\* token request and leaves both application caches as they were.
C8_CacheHit ==
    [][(/\ last'.op = "get_graph_token"
        /\ Truthy(AppCache.access_token)
        /\ now < AppCache.expires_at - SKEW) =>
           /\ last'.kind = "token"
           /\ last'.val = AppCache.access_token
           /\ last'.src = "cache"
           /\ last'.nreq = 0
           /\ UNCHANGED <<legacy_token_cache, agent_token_cache>>]_vars

\* A token acquired at 0 with a TTL of 120 was returned again from the cache
\* one tick later.
C8_Witness ==
    /\ last.op = "get_graph_token"
    /\ last.kind = "token"
    /\ last.src = "cache"
    /\ last.nreq = 0
    /\ last.exp = 2 * SKEW
    /\ now > 0
    /\ AppCache.access_token = last.val

\* C9: with the local-file backend, the file that the store's save wrote loads
\* back to the three field values that were saved, and a call that reloads it
\* has exactly them in memory.
C9_FileRoundTrip ==
    (~StoreUsesBlob /\ saved # NoToken) =>
        /\ file # Absent
        /\ LoadRecord(file) = saved
        /\ (last.op = "get_graph_delegated_token" /\ last.src = "reload") =>
              delegated_token_cache = saved

\* A refreshed token was saved to the file, the memory was cleared and the next
\* call loaded the file.
C9_Witness ==
    /\ ~StoreUsesBlob
    /\ saved # NoToken
    /\ saved.access_token = "DEL1"
    /\ last.op = "get_graph_delegated_token"
    /\ last.src = "reload"
    /\ last.loaded = "ok"
    /\ delegated_token_cache = saved

\* wait_for_fresh_token has returned: true exactly when a check before the
\* deadline saw a stamp other than the recorded one, false only once the
\* timeout has elapsed.
C10_Outcome ==
    poll_pc = "done" =>
        /\ result <=> observed
        /\ result => (elapsed < timeout /\ last_modified # baseline)
        /\ ~result => elapsed >= timeout

\* C10: wait_for_fresh_token records the stamp (or "absent") once, before
\* polling; it returns true iff a check before the deadline sees another
\* stamp, false once the timeout has elapsed; and every call returns.
C10_Poller ==
    /\ []C10_Outcome
    /\ [][(poll_pc \in {"poll", "sleep"}) =>
             (baseline' = baseline /\ timeout' = timeout)]_vars
    /\ (poll_pc \in {"poll", "sleep"}) ~> (poll_pc = "done")

\* No object existed at the call, a write came during the first sleep, and the
\* second check returned true before the deadline.
C10_Witness ==
    /\ poll_pc = "done"
    /\ result
    /\ baseline = NotModified
    /\ last_modified # NotModified
    /\ elapsed = POLL_INTERVAL
    /\ timeout = MaxTimeout

\* The three blueprint identity fields are all set.
BlueprintComplete ==
    cfg.GRAPH_BLUEPRINT_CLIENT_ID /\ cfg.GRAPH_BLUEPRINT_SECRET /\ cfg.GRAPH_AGENT_CLIENT_ID

\* C11: under every combination of set and unset identity fields, the two-step
\* blueprint acquisition is used exactly when the blueprint client id, the
\* blueprint secret and the agent client id are all set (it alone fills the
\* agent cache, with two requests); otherwise the legacy acquisition is used
\* (it alone fills the legacy cache, with one request), and with the legacy
\* client id or secret missing it raises RuntimeError without any request.
C11_ModeSelection ==
    /\ BlueprintComplete => legacy_token_cache = EmptyAppCache
    /\ ~BlueprintComplete => agent_token_cache = EmptyAppCache
    /\ last.op \in GetOps =>
          IF BlueprintComplete
          THEN /\ last.kind # "RuntimeError"
               /\ last.src = "acquired" => (last.nreq = 2 /\ last.val = agent_token_cache.access_token)
          ELSE /\ last.src = "acquired" => (last.nreq = 1 /\ last.val = legacy_token_cache.access_token)
               /\ ~(cfg.GRAPH_CLIENT_ID /\ cfg.GRAPH_CLIENT_SECRET) =>
                     (last.kind = "RuntimeError" /\ last.nreq = 0)
               /\ (cfg.GRAPH_CLIENT_ID /\ cfg.GRAPH_CLIENT_SECRET) => last.kind # "RuntimeError"

\* Blueprint id and secret are set but the agent id is not, and the legacy
\* secret is missing: the call took the legacy path and failed as not configured.
C11_Witness ==
    /\ cfg.GRAPH_BLUEPRINT_CLIENT_ID /\ cfg.GRAPH_BLUEPRINT_SECRET /\ ~cfg.GRAPH_AGENT_CLIENT_ID
    /\ cfg.GRAPH_CLIENT_ID /\ ~cfg.GRAPH_CLIENT_SECRET
    /\ last.op = "get_graph_token"
    /\ last.kind = "RuntimeError"
    /\ last.nreq = 0

\* The sources of a delegated token in blueprint mode.
DelegatedSources == {"cache", "reload", "refreshed"}

Accepted(report) == report.op = "callback" /\ report.nreq > 0

\* A /login that follows an earlier one sends a state value never sent before.
C14_LoginFresh ==
    (last'.op = "login" /\ issued # NoState) => issued' \notin 0..issued

\* A state value is accepted by at most one callback.
C14_SingleUse ==
    (Accepted(last) /\ Accepted(last') /\ last.st # NoState) => last'.st # last.st

\* A callback that carries the state value of an earlier login is rejected.
C14_StaleRejected ==
    (last.op = "callback" /\ last.st \in 1..(issued - 1)) =>
        last.status = 400 /\ last.nreq = 0 /\ last.save = "none"

\* C14 as stated: every /login sends a state value different from every one
\* sent before, which becomes the one the next callback must carry; a callback
\* with the value of an earlier login is rejected, and no value is accepted by
\* two callbacks.
C14_FreshSingleUseNonce ==
    /\ [][C14_LoginFresh /\ C14_SingleUse]_vars
    /\ []C14_StaleRejected

\* A durable object that is a complete token record with a non-empty access token.
CompleteRecord(obj) ==
    /\ \A key \in {"access_token", "refresh_token", "expires_at"} : Has(Member(obj, key))
    /\ Truthy(LoadRecord(obj).access_token)

\* A step that writes the durable object `after` at time t.
GoodWrite(before, after, t) ==
    (after # before /\ after # Absent) =>
        /\ CompleteRecord(after)
        /\ t < LoadRecord(after).expires_at - SKEW

\* C15 as stated, less its "strictly newer" part: whichever writer runs (the
\* refresher's save, the handler's save after the code, OBO-fallback or
\* consent-only path), every write leaves a complete record with a non-empty
\* access token that is valid at the time of the write, and no durable record
\* is ever partial or without an access token.
C15_DurableRecordValid ==
    /\ [][GoodWrite(file, file', now') /\ GoodWrite(blob, blob', now')]_vars
    /\ [](/\ file # Absent => CompleteRecord(file)
          /\ blob # Absent => CompleteRecord(blob))

\* No thread is between the two assignments of auth.py 140-141.
NoWriteInProgress == \A t \in Threads : thread[t].pc # "set_expiry"

\* C16 as stated: with two threads in get_graph_token() and no lock, whenever no
\* thread is between its two cache assignments the agent cache holds an access
\* token and an expiry of the same provider response, and a thread that returns
\* the cached token returns the token whose expiry it checked.
C16_ConsistentEntry ==
    /\ NoWriteInProgress => origin.access_token = origin.expires_at
    /\ \A t \in Threads :
         (thread[t].pc = "idle" /\ thread[t].checked # NoResponse) =>
             thread[t].handed_of = thread[t].checked

\* The callback that `report` describes carried an error parameter, and the
\* state the server expects where the handler checks it.
ErrorFromProvider(report) ==
    /\ report.op = "callback"
    /\ report.error
    /\ cfg.handler = "standalone" => report.st = state

\* C17: a callback with an error parameter (and a valid state where the state
\* is checked) is answered 400 without any token-endpoint request and without
\* a durable write, whether or not it also carries a code.
C17_ErrorFromProvider ==
    /\ [](ErrorFromProvider(last) =>
            /\ last.status = 400
            /\ last.nreq = 0
            /\ last.save = "none")
    /\ [][ErrorFromProvider(last') => UNCHANGED <<file, blob>>]_vars

C17_Witness ==
    /\ ErrorFromProvider(last)
    /\ last.code
    /\ last.status = 400
    /\ HandlerDurable # Absent

\* The token the handler chose to save, read off the report of the callback:
\* the OBO token, else the redeemed user token, else the consent-only token.
Chosen(report) ==
    IF report.obo = "ok" THEN TokenData(report.obo_reply)
    ELSE IF report.code THEN report.tc
    ELSE [access_token |-> "APP1", refresh_token |-> "",
          expires_at |-> now + DEFAULT_EXPIRES_IN]

\* C18: the handler answers 200 only when the token it chose is in the durable
\* object, and a callback that ends with 400 or 500 leaves the file and the
\* blob as they were.
C18_OkOnlyAfterWrite ==
    /\ []((last.op = "callback" /\ last.status = 200) =>
            /\ last.save = "ok"
            /\ HandlerDurable = JsonDumps(Chosen(last)))
    /\ [][(last'.op = "callback" /\ last'.status \in {400, 500}) =>
              UNCHANGED <<file, blob>>]_vars

C18_Witness ==
    /\ last.op = "callback"
    /\ last.status = 500
    /\ last.redeem = "failed"
    /\ last.nreq = 3
    /\ HandlerDurable # Absent

\* C19: the refresher's requests are the bootstrap mint, then the assertion-form
\* refresh grant, then the secret-form refresh grant exactly when the assertion
\* form was answered with status >= 400; both forms carry the same stored
\* refresh token, and after a failed bootstrap mint no refresh grant is sent.
C19_RefreshOrder ==
    (last.op = "get_graph_delegated_token" /\ use_agent_id) =>
        /\ Len(last.grants) <= 2
        /\ last.grants # <<>> => last.nreq = Len(last.grants) + 1
        /\ last.nreq <= 1 => last.grants = <<>>
        /\ Len(last.grants) = 2 <=> (last.grants # <<>> /\ last.grants[1] = "http_error")
        /\ Len(last.sent) = Len(last.grants)
        /\ \A i \in 1..Len(last.sent) :
             /\ Truthy(last.sent[i])
             /\ last.sent[i] = last.sent[1]
             /\ last.kind = "DelegatedAuthRequired" =>
                    last.sent[i] = delegated_token_cache.refresh_token

C19_Witness ==
    /\ last.op = "get_graph_delegated_token"
    /\ last.grants = <<"http_error", "ok">>
    /\ last.nreq = 3
    /\ last.src = "refreshed"
    /\ Len(last.sent) = 2

\* The latest operation was a get_graph_delegated_token() whose refresh succeeded.
Refreshed == last.op = "get_graph_delegated_token" /\ last.src = "refreshed"

\* C20: after a successful refresh the delegated cache holds the reply's access
\* token, the time of receipt plus the reply's TTL (3600 if it has none) and
\* the reply's refresh token, or the one that was sent if the reply has none;
\* the record the save wrote is that cache.
C20_RefreshedCache ==
    Refreshed =>
        /\ delegated_token_cache.access_token = last.refresh_reply.access_token[1]
        /\ delegated_token_cache.expires_at =
              now + Get(last.refresh_reply.expires_in, DEFAULT_EXPIRES_IN)
        /\ delegated_token_cache.refresh_token =
              (IF Has(last.refresh_reply.refresh_token)
               THEN last.refresh_reply.refresh_token[1] ELSE last.sent[1])
        /\ last.save \in {"ok", "failed"}
        /\ last.save = "ok" => /\ Durable = JsonDumps(delegated_token_cache)
                               /\ LoadRecord(Durable) = delegated_token_cache

C20_Witness ==
    /\ Refreshed
    /\ ~Has(last.refresh_reply.refresh_token)
    /\ ~Has(last.refresh_reply.expires_in)
    /\ last.save = "ok"
    /\ delegated_token_cache.refresh_token = last.sent[1]
    /\ LoadRecord(Durable) = delegated_token_cache

\* C21: when the save after a successful refresh fails, the cloud backend
\* swallows the failure (the call returns the new token, the cache holds it),
\* and the local-file backend lets the write failure reach the caller.
C21_SaveFailure ==
    (last.op = "get_graph_delegated_token" /\ last.save = "failed") =>
        /\ delegated_token_cache.access_token = last.refresh_reply.access_token[1]
        /\ IF cfg.TOKEN_STORAGE_URL
           THEN /\ last.kind = "token"
                /\ last.src = "refreshed"
                /\ last.val = last.refresh_reply.access_token[1]
           ELSE /\ last.kind = "OSError"
                /\ last.val = ""

C21_Witness ==
    /\ last.op = "get_graph_delegated_token"
    /\ last.save = "failed"
    /\ ~cfg.TOKEN_STORAGE_URL
    /\ last.kind = "OSError"
    /\ Durable # JsonDumps(delegated_token_cache)

\* The access tokens a bootstrap grant can return.
BootstrapTokens == {r.access_token[1] : r \in {b \in BootstrapReplies : Has(b.access_token)}}

\* The access token of a durable object, None when there is no object.
RecordToken(obj) == IF obj = Absent THEN None ELSE LoadRecord(obj).access_token

\* C22: no in-memory cache (legacy, agent, delegated) and no durable record
\* (file, blob) ever holds a bootstrap token T1 as its access token.
C22_BootstrapNeverCached ==
    /\ legacy_token_cache.access_token \notin BootstrapTokens
    /\ agent_token_cache.access_token \notin BootstrapTokens
    /\ delegated_token_cache.access_token \notin BootstrapTokens
    /\ RecordToken(file) \notin BootstrapTokens
    /\ RecordToken(blob) \notin BootstrapTokens

C22_Witness ==
    /\ last.op = "get_graph_token"
    /\ use_agent_id
    /\ last.src = "acquired"
    /\ last.nreq = 2
    /\ agent_token_cache.access_token = last.val
    /\ last.val \notin BootstrapTokens

\* The callback that `report` describes carried neither code nor error, and the
\* state the server expects where the handler checks it.
ConsentOnly(report) ==
    /\ report.op = "callback"
    /\ ~report.code
    /\ ~report.error
    /\ cfg.handler = "standalone" => report.st = state

\* The access tokens the consent-only grant can return.
ConsentTokens == {r.access_token[1] : r \in {c \in ConsentReplies : Has(c.access_token)}}

\* C23: a callback without code and without error mints a bootstrap token and
\* asks for an app-only token with it; it redeems no code and tries no OBO.  On
\* success it saves that token as the delegated record with the refresh token ""
\* and answers 200; when either request fails it answers 500 and writes nothing.
C23_ConsentOnly ==
    /\ [](ConsentOnly(last) =>
            /\ last.redeem = "none" /\ last.obo = "none"
            /\ last.nreq \in {1, 2}
            /\ last.status \in {200, 500}
            /\ last.status = 200 <=> (last.nreq = 2 /\ last.save = "ok")
            /\ last.status = 200 =>
                  /\ LoadRecord(HandlerDurable).access_token \in ConsentTokens
                  /\ LoadRecord(HandlerDurable).refresh_token = ""
                  /\ LoadRecord(HandlerDurable).expires_at = now + DEFAULT_EXPIRES_IN)
    /\ [][(ConsentOnly(last') /\ last'.status = 500) => UNCHANGED <<file, blob>>]_vars

C23_Witness ==
    /\ ConsentOnly(last)
    /\ last.status = 200
    /\ last.nreq = 2
    /\ LoadRecord(HandlerDurable).refresh_token = ""
    /\ Truthy(LoadRecord(HandlerDurable).access_token)

\* The OBO attempt of the callback got as far as its jwt-bearer grant.
OboGrantSent(report) == report.obo \in {"grant_error", "grant_rejected", "no_access_token", "ok"}

\* C24 as stated: no operation of one caller sends more than three
\* token-endpoint requests.
C24_AtMostThree == last.nreq <= 3

\* C24: an application-token call sends at most two requests and a delegated
\* call at most three; a callback sends at most five: three when the first
\* redemption is accepted (redemption, bootstrap, OBO grant), five when it is
\* rejected (redemption, bootstrap, second redemption, bootstrap, OBO grant),
\* and at most two on the consent-only path.
C24_RequestBounds ==
    /\ last.op = "get_graph_token" => last.nreq <= 2
    /\ last.op = "get_graph_delegated_token" => last.nreq <= 3
    /\ last.op = "callback" =>
          /\ last.nreq <= 5
          /\ ~last.code => last.nreq <= 2
          /\ last.redeem = "primary" => last.nreq <= 3
          /\ (last.redeem = "primary" /\ OboGrantSent(last)) => last.nreq = 3
          /\ (last.redeem = "fallback" /\ OboGrantSent(last)) => last.nreq = 5

C24_Witness ==
    /\ last.op = "callback"
    /\ last.redeem = "fallback"
    /\ last.obo = "ok"
    /\ last.status = 200
    /\ last.nreq = 5

\* The step is the first get_graph_delegated_token() after a call that raised
\* DelegatedAuthRequired and a later callback that ended in success and wrote
\* the record the store reads, with or without clear_delegated_cache() in
\* between, and the record's token is valid.
C25_RetryAfterSignIn ==
    /\ recovery = "signed_in"
    /\ recovery' # "signed_in"
    /\ Truthy(LoadRecord(Durable).access_token)
    /\ now < LoadRecord(Durable).expires_at - SKEW

\* C25 as stated: that call returns the token the callback persisted.
C25_RecoversAfterSignIn ==
    [][C25_RetryAfterSignIn =>
         /\ last'.kind = "token"
         /\ last'.val = LoadRecord(Durable).access_token]_vars

\* C25 amended: that call always attempts to read the durable record; when the
\* read succeeds it returns the persisted token without a token request and
\* does not raise DelegatedAuthRequired; when the read fails the failure is
\* swallowed and the call goes on with the memory it had, which holds no valid
\* token.
C25_RecoversAfterSignInIfRead ==
    [][C25_RetryAfterSignIn =>
         /\ last'.op = "get_graph_delegated_token"
         /\ last'.loaded \in {"ok", "failed"}
         /\ last'.loaded = "ok" =>
               /\ last'.kind = "token"
               /\ last'.src = "reload"
               /\ last'.nreq = 0
               /\ last'.val = LoadRecord(Durable).access_token
               /\ delegated_token_cache' = LoadRecord(Durable)
         /\ last'.loaded = "failed" =>
               /\ last'.src # "reload"
               /\ last'.kind \in {"token", "DelegatedAuthRequired", "ValueError", "OSError"}
               /\ last'.kind = "token" => last'.src = "refreshed"]_vars

\* A retry after a sign-in reloaded the record and returned the callback's token.
C25_Witness ==
    /\ recovery = "retried"
    /\ last.op = "get_graph_delegated_token"
    /\ last.kind = "token"
    /\ last.src = "reload"
    /\ last.val = LoadRecord(Durable).access_token
    /\ last.val \in {"OBO1", "TC", "APP1"}

\* The step is a get_graph_token() or get_graph_delegated_token() that sent at
\* least one request and got no token: a request failed or its reply had no
\* access_token.
C26_FailedAttempt ==
    /\ last'.op \in GetOps
    /\ last'.nreq > 0
    /\ last'.kind # "token"
    /\ last'.save = "none"

\* C26: a failed acquisition or refresh writes no cache field and saves
\* nothing: the application caches, the file and the blob are as before, and
\* the delegated cache is what the load before the refresh left (the durable
\* record if it was read, else the memory as it was).
C26_FailureChangesNothing ==
    [][C26_FailedAttempt =>
         /\ UNCHANGED <<legacy_token_cache, agent_token_cache, file, blob>>
         /\ delegated_token_cache' =
               (IF last'.loaded = "ok" THEN LoadRecord(Durable) ELSE delegated_token_cache)]_vars

\* A refresh whose two grants were rejected left a memory that holds tokens.
C26_Witness ==
    /\ last.op = "get_graph_delegated_token"
    /\ last.kind = "DelegatedAuthRequired"
    /\ last.nreq = 3
    /\ last.loaded # "ok"
    /\ Truthy(delegated_token_cache.access_token)
    /\ Truthy(delegated_token_cache.refresh_token)

\* C27 as stated: when the redeemed user token Tc has a non-empty refresh token,
\* the record a successful callback persisted has a non-empty refresh token,
\* whether it is the OBO token or Tc.
C27_StaysRefreshable ==
    (/\ last.op = "callback"
     /\ last.status = 200
     /\ Redeemed
     /\ Truthy(last.tc.refresh_token)) =>
        Truthy(LoadRecord(HandlerDurable).refresh_token)

\* C28 as stated: with clear_delegated_cache() (or another caller's reload)
\* running beside it, a get_graph_delegated_token() that returns normally
\* returns a non-empty access token, never None or "".
C28_ReturnsToken ==
    \A t \in Threads : thread[t].outcome = "returned" => Truthy(thread[t].handed)

\* C29 as stated: every refresh grant carries the refresh token that this
\* process obtained, or that was written to the record the store reads, most
\* recently; a reload never puts an older one in its place.
C29_NewestRefreshTokenSent ==
    [][(last'.op = "get_graph_delegated_token" /\ last'.sent # <<>>) =>
          \A i \in 1..Len(last'.sent) : last'.sent[i] = newest_rt]_vars

\* C30 as stated: in every streamed response the events carry the sequence
\* numbers 0, 1, 2, ... in the order they are sent, with no gap and no repeat
\* from the created event to the completed event: each event's number is the
\* number of events the response sent before it.
C30_SequenceNumbersInOrder ==
    \A s \in Streams :
        stream[s].emitted > 0 =>
            stream[s].event.sequence_number = stream[s].emitted - 1

====
